---- MODULE Spec2Model ----
(***************************************************************************)
(* Model of calculations/poles.py: PoleOfInaccessibilityTool.execute.      *)
(*                                                                         *)
(* Numbers are fixed-point: every coordinate, size, distance and tolerance *)
(* is an integer count of lattice units (one unit stands for 0.0005 map    *)
(* units, so the default tolerance 0.001 is 2).  A distance is rounded     *)
(* down to the lattice, h * math.sqrt(2) is rounded up (the double         *)
(* math.sqrt(2) = 1.4142135623730951 lies above the real square root).     *)
(*                                                                         *)
(* A polygon is a rectilinear region given as a set of closed rectangles   *)
(* <<x0, y0, x1, y1>> that overlap only on their edges.                    *)
(***************************************************************************)
EXTENDS Integers, Sequences, FiniteSets

VARIABLES
    polygon,      \* parameters[0].value: the (first) input polygon, by name
    tolParam,     \* parameters[2].value: <<>> when no value, <<v>> otherwise
    pc,           \* position of execute
    tolerance,    \* local tolerance (line 63)
    cell_size,    \* local cell_size (line 82)
    h,            \* local h (lines 83 and 136)
    x, y,         \* loop variables of the initial grid (lines 105-112)
    heap,         \* cell_queue.queue, the heapq list inside the PriorityQueue
    now,          \* last value returned by time.time()
    anomalies,    \* readings of the clock so far that did not advance it
    best_cell,    \* local best_cell
    cell,         \* local cell: the cell popped last (line 128)
    k,            \* index of the child the for loop of line 137 builds next
    pole_pt,      \* local pole_pt: <<>> until assigned, then <<point>>
    branch,       \* which branch of line 86 ran: "none", "degenerate", "search"
    cells,        \* history: every Cell constructed in this call
    pushed,       \* history: the secondary key of every put, in order
    pops,         \* history: every cell popped, with its fate
    in_memory,    \* datasets of the in_memory workspace: name -> rows
    out_param,    \* parameters[1].value
    prev          \* outcome of the previous call with the same parameters

vars == <<polygon, tolParam, pc, tolerance, cell_size, h, x, y, heap, now,
          anomalies, best_cell, cell, k, pole_pt, branch, cells, pushed,
          pops, in_memory, out_param, prev>>

----------------------------------------------------------------------------
(* Bounds and constants *)

\* At most this many readings of time.time() in one behaviour fail to
\* advance the clock (equal to the previous reading, or set back).
MaxClockAnomalies == 1

\* The default tolerance 0.001 (lines 44 and 63), in lattice units.
DefaultTolerance == 2

----------------------------------------------------------------------------
(* Geometry: what execute reads from the arcpy polygon *)

PolygonNames == {"Square", "Wide", "Thin", "SShape", "Ring", "Line"}

\* The input polygons.  centroid is arcpy's Polygon.centroid: the true
\* centroid when it lies within or on the polygon, else the label point
\* (Ring, whose true centroid <<4, 4>> lies in the hole).
Geometry(p) ==
    CASE p = "Square" -> [rects |-> {<<0, 0, 4, 4>>}, centroid |-> <<2, 2>>]
      [] p = "Wide"   -> [rects |-> {<<0, 0, 6, 4>>}, centroid |-> <<3, 2>>]
      [] p = "Thin"   -> [rects |-> {<<0, 0, 8, 2>>}, centroid |-> <<4, 1>>]
      [] p = "SShape" -> [rects |-> {<<0, 3, 8, 5>>, <<3, 0, 8, 3>>, <<0, 5, 5, 8>>},
                          centroid |-> <<4, 4>>]
      [] p = "Ring"   -> [rects |-> {<<0, 0, 8, 2>>, <<0, 6, 8, 8>>,
                                     <<0, 2, 2, 6>>, <<6, 2, 8, 6>>},
                          centroid |-> <<4, 1>>]
      [] p = "Line"   -> [rects |-> {<<4, 0, 4, 8>>}, centroid |-> <<4, 4>>]

Min(S) == CHOOSE m \in S : \A n \in S : m <= n
Max(S) == CHOOSE m \in S : \A n \in S : m >= n

XMin(p) == Min({r[1] : r \in Geometry(p).rects})
YMin(p) == Min({r[2] : r \in Geometry(p).rects})
XMax(p) == Max({r[3] : r \in Geometry(p).rects})
YMax(p) == Max({r[4] : r \in Geometry(p).rects})
Width(p) == XMax(p) - XMin(p)
Height(p) == YMax(p) - YMin(p)
MaxDim(p) == Max({Width(p), Height(p)})

RECURSIVE SumAreas(_)
SumAreas(R) ==
    IF R = {} THEN 0
    ELSE LET r == CHOOSE r \in R : TRUE
         IN (r[3] - r[1]) * (r[4] - r[2]) + SumAreas(R \ {r})

Area(p) == SumAreas(Geometry(p).rects)
Centroid(p) == Geometry(p).centroid

\* Largest r with r * r <= n.
FloorSqrt(n) == CHOOSE r \in 0..n : r * r <= n /\ (r + 1) * (r + 1) > n
\* Smallest r with r * r >= n.
CeilSqrt(n) == CHOOSE r \in 0..n : r * r >= n /\ (r = 0 \/ (r - 1) * (r - 1) < n)

\* Gap between coordinate v and the interval [lo, hi].
Gap(v, lo, hi) == IF v < lo THEN lo - v ELSE IF v > hi THEN v - hi ELSE 0

\* PointGeometry.distanceTo(polygon): the minimum distance between the two
\* geometries, 0 when the point lies within or on the polygon.
Distance(pt, p) ==
    Min({FloorSqrt(Gap(pt[1], r[1], r[3]) * Gap(pt[1], r[1], r[3])
                   + Gap(pt[2], r[2], r[4]) * Gap(pt[2], r[2], r[4]))
         : r \in Geometry(p).rects})

----------------------------------------------------------------------------
(* Cell *)

NoCell == [x |-> 0, y |-> 0, h |-> -1, d |-> 0, max |-> 0]

\* h * math.sqrt(2)
HalfDiagonal(hh) == CeilSqrt(2 * hh * hh)

CellMaxHalfSize(d, hh) == d + hh

\* self.max = self.d + self.h * math.sqrt(2)
CellMax(d, hh) == d + HalfDiagonal(hh)

\* Cell.__init__
NewCell(cx, cy, hh, p) ==
    LET d == Distance(<<cx, cy>>, p)
    IN [x |-> cx, y |-> cy, h |-> hh, d |-> d, max |-> CellMax(d, hh)]

----------------------------------------------------------------------------
(* cell_queue: queue.PriorityQueue over heapq, entries (-c.max, time, c) *)

EntryPlainMax(c, t) == <<c.max, t, c>>

EntryTimeFirst(c, t) == <<t, -c.max, c>>

\* the tuple put on the queue
Entry(c, t) == <<-c.max, t, c>>

\* Tuple comparison a < b stops at the first differing position; two tuples
\* equal in both keys go on to Cell < Cell, which raises TypeError.
Comparable(a, b) == a[1] # b[1] \/ a[2] # b[2]
Less(a, b) == a[1] < b[1] \/ (a[1] = b[1] /\ a[2] < b[2])

\* heapq._siftdown(heap, startpos, pos), positions counted from 0
RECURSIVE SiftDown(_, _, _, _)
SiftDown(q, startpos, pos, newitem) ==
    IF pos > startpos
    THEN LET parentpos == (pos - 1) \div 2
             parent == q[parentpos + 1]
         IN IF ~Comparable(newitem, parent)
            THEN [ok |-> FALSE, heap |-> q]
            ELSE IF Less(newitem, parent)
                 THEN SiftDown([q EXCEPT ![pos + 1] = parent], startpos, parentpos, newitem)
                 ELSE [ok |-> TRUE, heap |-> [q EXCEPT ![pos + 1] = newitem]]
    ELSE [ok |-> TRUE, heap |-> [q EXCEPT ![pos + 1] = newitem]]

\* heapq._siftup(heap, pos)
RECURSIVE SiftUp(_, _, _)
SiftUp(q, pos, newitem) ==
    LET endpos == Len(q)
        childpos == 2 * pos + 1
        rightpos == childpos + 1
    IN IF childpos < endpos
       THEN IF rightpos < endpos /\ ~Comparable(q[childpos + 1], q[rightpos + 1])
            THEN [ok |-> FALSE, heap |-> q]
            ELSE LET c == IF rightpos < endpos /\ ~Less(q[childpos + 1], q[rightpos + 1])
                          THEN rightpos ELSE childpos
                 IN SiftUp([q EXCEPT ![pos + 1] = q[c + 1]], c, newitem)
       ELSE SiftDown(q, 0, pos, newitem)

\* cell_queue.put(item): heapq.heappush
HeapPush(q, item) == SiftDown(Append(q, item), 0, Len(q), item)

\* cell_queue.get(): heapq.heappop
HeapPop(q) ==
    LET lastelt == q[Len(q)]
        rest == SubSeq(q, 1, Len(q) - 1)
    IN IF rest # <<>>
       THEN LET r == SiftUp([rest EXCEPT ![1] = lastelt], 0, lastelt)
            IN [ok |-> r.ok, heap |-> r.heap, item |-> q[1]]
       ELSE [ok |-> TRUE, heap |-> rest, item |-> lastelt]

\* time.time(): the pairs <<reading, anomalies afterwards>> a call can give.
\* The clock normally advances; within its resolution it repeats the last
\* reading, and it reads lower after the system clock was set back.
ClockReadings(t, a) ==
    {<<t + 1, a>>}
        \cup (IF a < MaxClockAnomalies THEN {<<t, a + 1>>, <<0, a + 1>>} ELSE {})

----------------------------------------------------------------------------
(* execute *)

NoRun == [ran |-> FALSE, point |-> <<>>, d |-> 0, order |-> <<>>]

Init ==
    /\ polygon \in PolygonNames
    /\ tolParam \in {<<>>, <<0>>, <<-1>>, <<2>>, <<3>>, <<7>>}
    /\ pc = "start"
    /\ tolerance = 0
    /\ cell_size = 0
    /\ h = 0
    /\ x = 0
    /\ y = 0
    /\ heap = <<>>
    /\ now = 0
    /\ anomalies = 0
    /\ best_cell = NoCell
    /\ cell = NoCell
    /\ k = 0
    /\ pole_pt = <<>>
    /\ branch = "none"
    /\ cells = {}
    /\ pushed = <<>>
    /\ pops = <<>>
    /\ in_memory = {}
    /\ out_param = ""
    /\ prev = NoRun

\* tolerance = parameters[2].value if parameters[2].value else 0.001
EffectiveTolerance(tp) ==
    IF tp = <<>> \/ tp[1] = 0 THEN DefaultTolerance ELSE tp[1]

IsDegenerateInclusive(cs, area, max_dim, tol) == cs = 0 \/ area <= max_dim * tol

\* cell_size == 0 or polygon_geom.area < max_dim * tolerance
IsDegenerate(cs, area, max_dim, tol) == cs = 0 \/ area < max_dim * tol

BBoxCenter(p) == <<XMin(p) + Width(p) \div 2, YMin(p) + Height(p) \div 2>>

DegeneratePointBBoxCenter(p) == BBoxCenter(p)

\* pole_pt = polygon_geom.centroid
DegeneratePoint(p) == Centroid(p)

\* lines 62-88: the degenerate branch
StartDegenerate ==
    /\ pc = "start"
    /\ LET tol == EffectiveTolerance(tolParam)
           cs == Min({Width(polygon), Height(polygon)})
       IN /\ IsDegenerate(cs, Area(polygon), MaxDim(polygon), tol)
          /\ tolerance' = tol
          /\ cell_size' = cs
          /\ h' = cs \div 2
    /\ in_memory' = {[name |-> "temp_polygon", rows |-> <<polygon>>]}
    /\ pole_pt' = <<DegeneratePoint(polygon)>>
    /\ branch' = "degenerate"
    /\ pc' = "output"
    /\ UNCHANGED <<polygon, tolParam, x, y, heap, now, anomalies, best_cell,
                   cell, k, cells, pushed, pops, out_param, prev>>

\* lines 62-86 and 102-107: the search branch up to the first grid cell
StartSearch ==
    /\ pc = "start"
    /\ LET tol == EffectiveTolerance(tolParam)
           cs == Min({Width(polygon), Height(polygon)})
       IN /\ ~IsDegenerate(cs, Area(polygon), MaxDim(polygon), tol)
          /\ tolerance' = tol
          /\ cell_size' = cs
          /\ h' = cs \div 2
    /\ in_memory' = {[name |-> "temp_polygon", rows |-> <<polygon>>]}
    /\ branch' = "search"
    /\ x' = XMin(polygon)
    /\ y' = YMin(polygon)
    /\ pc' = "grid"
    /\ UNCHANGED <<polygon, tolParam, heap, now, anomalies, best_cell, cell,
                   k, pole_pt, cells, pushed, pops, out_param, prev>>

GridCellAtCorner(gx, gy, hh, p) == NewCell(gx, gy, hh, p)

\* c = Cell(x + h, y + h, h, polygon_geom)
GridCell(gx, gy, hh, p) == NewCell(gx + hh, gy + hh, hh, p)

\* lines 109-112: one iteration of the inner grid loop.  The loop variables
\* move on only when put returns.
GridPut ==
    /\ pc = "grid"
    /\ \E r \in ClockReadings(now, anomalies) :
         LET c == GridCell(x, y, h, polygon)
             res == HeapPush(heap, Entry(c, r[1]))
             y2 == y + cell_size
             nx == IF y2 < YMax(polygon) THEN x ELSE x + cell_size
             ny == IF y2 >= YMax(polygon) /\ nx < XMax(polygon)
                   THEN YMin(polygon) ELSE y2
         IN /\ cells' = cells \cup {c}
            /\ now' = r[1]
            /\ anomalies' = r[2]
            /\ pushed' = Append(pushed, r[1])
            /\ heap' = res.heap
            /\ IF res.ok
               THEN /\ x' = nx
                    /\ y' = ny
                    /\ pc' = IF nx < XMax(polygon) THEN "grid" ELSE "seedbest"
               ELSE /\ pc' = "TypeError"
                    /\ UNCHANGED <<x, y>>
    /\ UNCHANGED <<polygon, tolParam, tolerance, cell_size, h, best_cell, cell,
                   k, pole_pt, branch, pops, in_memory, out_param, prev>>

SeedBestCellCentroidOnly(cent, bbox) == cent

\* lines 119-124: the centroid cell, replaced by the bbox-center cell if larger
SeedBestCell(cent, bbox) == IF bbox.d > cent.d THEN bbox ELSE cent

\* get_centroid_cell
CentroidCell(p) == NewCell(Centroid(p)[1], Centroid(p)[2], 0, p)

\* Cell(min_x + width / 2, min_y + height / 2, 0, polygon_geom)
BBoxCell(p) == NewCell(BBoxCenter(p)[1], BBoxCenter(p)[2], 0, p)

\* lines 114-124
SeedBest ==
    /\ pc = "seedbest"
    /\ best_cell' = SeedBestCell(CentroidCell(polygon), BBoxCell(polygon))
    /\ cells' = cells \cup {CentroidCell(polygon), BBoxCell(polygon)}
    /\ pc' = "loop"
    /\ UNCHANGED <<polygon, tolParam, tolerance, cell_size, h, x, y, heap, now,
                   anomalies, cell, k, pole_pt, branch, pushed, pops,
                   in_memory, out_param, prev>>

UpdateBestByMax(c, b) == IF c.max > b.d THEN c ELSE b

UpdateBestIfSmaller(c, b) == IF c.d < b.d THEN c ELSE b

\* lines 130-131
UpdateBest(c, b) == IF c.d > b.d THEN c ELSE b

PrunedStrict(c, b, tol) == c.max - b.d < tol

PrunedOnCenter(c, b, tol) == c.d - b.d <= tol

\* line 133
Pruned(c, b, tol) == c.max - b.d <= tol

\* Whether h / 2 is a lattice value.
CanHalve(hh) == hh % 2 = 0

\* line 128 when a comparison inside get raises TypeError
PopFail ==
    /\ pc = "loop"
    /\ heap # <<>>
    /\ ~HeapPop(heap).ok
    /\ heap' = HeapPop(heap).heap
    /\ pc' = "TypeError"
    /\ UNCHANGED <<polygon, tolParam, tolerance, cell_size, h, x, y, now,
                   anomalies, best_cell, cell, k, pole_pt, branch, cells,
                   pushed, pops, in_memory, out_param, prev>>

\* lines 127-134: pop, update best, prune
PopPrune ==
    /\ pc = "loop"
    /\ heap # <<>>
    /\ HeapPop(heap).ok
    /\ LET c == HeapPop(heap).item[3]
           b == UpdateBest(c, best_cell)
       IN /\ Pruned(c, b, tolerance)
          /\ cell' = c
          /\ best_cell' = b
          /\ pops' = Append(pops, [cell |-> c, pruned |-> TRUE, best |-> b])
    /\ heap' = HeapPop(heap).heap
    /\ UNCHANGED <<polygon, tolParam, pc, tolerance, cell_size, h, x, y, now,
                   anomalies, k, pole_pt, branch, cells, pushed, in_memory,
                   out_param, prev>>

\* lines 127-137: pop, update best, no prune, h = cell.h / 2
PopSubdivide ==
    /\ pc = "loop"
    /\ heap # <<>>
    /\ HeapPop(heap).ok
    /\ LET c == HeapPop(heap).item[3]
           b == UpdateBest(c, best_cell)
       IN /\ ~Pruned(c, b, tolerance)
          /\ CanHalve(c.h)
          /\ cell' = c
          /\ best_cell' = b
          /\ pops' = Append(pops, [cell |-> c, pruned |-> FALSE, best |-> b])
          /\ h' = c.h \div 2
    /\ heap' = HeapPop(heap).heap
    /\ k' = 1
    /\ pc' = "children"
    /\ UNCHANGED <<polygon, tolParam, tolerance, cell_size, x, y, now,
                   anomalies, pole_pt, branch, cells, pushed, in_memory,
                   out_param, prev>>

\* lines 127-134 for a cell that is not pruned and whose half-size the
\* lattice cannot halve: the model follows the search no further.
PopBeyondLattice ==
    /\ pc = "loop"
    /\ heap # <<>>
    /\ HeapPop(heap).ok
    /\ LET c == HeapPop(heap).item[3]
           b == UpdateBest(c, best_cell)
       IN /\ ~Pruned(c, b, tolerance)
          /\ ~CanHalve(c.h)
          /\ cell' = c
          /\ best_cell' = b
          /\ pops' = Append(pops, [cell |-> c, pruned |-> FALSE, best |-> b])
    /\ heap' = HeapPop(heap).heap
    /\ pc' = "lattice_limit"
    /\ UNCHANGED <<polygon, tolParam, tolerance, cell_size, h, x, y, now,
                   anomalies, k, pole_pt, branch, cells, pushed, in_memory,
                   out_param, prev>>

OffsetsAlongAxes(hh) == <<<<-hh, 0>>, <<hh, 0>>, <<0, -hh>>, <<0, hh>>>>

OffsetsFullSize(hh) == <<<<-2 * hh, -2 * hh>>, <<2 * hh, -2 * hh>>,
                         <<-2 * hh, 2 * hh>>, <<2 * hh, 2 * hh>>>>

\* for dx, dy in [(-h, -h), (h, -h), (-h, h), (h, h)]
Offsets(hh) == <<<<-hh, -hh>>, <<hh, -hh>>, <<-hh, hh>>, <<hh, hh>>>>

\* lines 137-139: one iteration of the for loop
PutChild ==
    /\ pc = "children"
    /\ \E r \in ClockReadings(now, anomalies) :
         LET off == Offsets(h)[k]
             c == NewCell(cell.x + off[1], cell.y + off[2], h, polygon)
             res == HeapPush(heap, Entry(c, r[1]))
         IN /\ cells' = cells \cup {c}
            /\ now' = r[1]
            /\ anomalies' = r[2]
            /\ pushed' = Append(pushed, r[1])
            /\ heap' = res.heap
            /\ IF res.ok
               THEN /\ k' = k + 1
                    /\ pc' = IF k < 4 THEN "children" ELSE "loop"
               ELSE /\ pc' = "TypeError"
                    /\ UNCHANGED k
    /\ UNCHANGED <<polygon, tolParam, tolerance, cell_size, h, x, y, best_cell,
                   cell, pole_pt, branch, pops, in_memory, out_param, prev>>

\* lines 127 and 141: the queue is empty
LoopExit ==
    /\ pc = "loop"
    /\ heap = <<>>
    /\ pole_pt' = <<<<best_cell.x, best_cell.y>>>>
    /\ pc' = "output"
    /\ UNCHANGED <<polygon, tolParam, tolerance, cell_size, h, x, y, heap, now,
                   anomalies, best_cell, cell, k, branch, cells, pushed, pops,
                   in_memory, out_param, prev>>

\* lines 143-150: create in_memory/output_point, insert the point, set the
\* derived parameter, delete the in_memory workspace
WriteOutput ==
    /\ pc = "output"
    /\ out_param' = "in_memory/output_point"
    /\ in_memory' = {}
    /\ pc' = "returned"
    /\ UNCHANGED <<polygon, tolParam, tolerance, cell_size, h, x, y, heap, now,
                   anomalies, best_cell, cell, k, pole_pt, branch, cells,
                   pushed, pops, prev>>

PopOrder == [i \in 1..Len(pops) |-> pops[i].cell]

\* The host runs the tool once more with the same parameters.
Rerun ==
    /\ pc = "returned"
    /\ ~prev.ran
    /\ prev' = [ran |-> TRUE, point |-> pole_pt[1], d |-> best_cell.d,
                order |-> PopOrder]
    /\ pc' = "start"
    /\ tolerance' = 0
    /\ cell_size' = 0
    /\ h' = 0
    /\ x' = 0
    /\ y' = 0
    /\ heap' = <<>>
    /\ best_cell' = NoCell
    /\ cell' = NoCell
    /\ k' = 0
    /\ pole_pt' = <<>>
    /\ branch' = "none"
    /\ cells' = {}
    /\ pushed' = <<>>
    /\ pops' = <<>>
    /\ out_param' = ""
    /\ UNCHANGED <<polygon, tolParam, now, anomalies, in_memory>>

Next ==
    \/ StartDegenerate
    \/ StartSearch
    \/ GridPut
    \/ SeedBest
    \/ PopFail
    \/ PopPrune
    \/ PopSubdivide
    \/ PopBeyondLattice
    \/ PutChild
    \/ LoopExit
    \/ WriteOutput
    \/ Rerun

Spec == Init /\ [][Next]_vars

----------------------------------------------------------------------------
(* Claims *)

\* Right and top edge of the initial grid: the first grid line at or beyond
\* the bounding box.
GridEnd(lo, hi, cs) == lo + ((hi - lo + cs - 1) \div cs) * cs

\* The lattice points of the initial grid's cells.
GridPoints ==
    (XMin(polygon)..GridEnd(XMin(polygon), XMax(polygon), cell_size))
        \X (YMin(polygon)..GridEnd(YMin(polygon), YMax(polygon), cell_size))

SearchEnded == branch = "search" /\ pc \in {"output", "returned"}

\* C1: when the search loop has ended with an empty frontier (tolerance > 0,
\* polygon not degenerate), no point of any initial cell has a distance
\* greater than best.d + tolerance.
C1_WithinTolerance ==
    (SearchEnded /\ tolerance > 0)
        => \A pt \in GridPoints :
              Distance(pt, polygon) <= best_cell.d + tolerance

\* A search that subdivided, ended, and found a best distance above 0 that
\* is still below the largest distance of the grid.
C1_Witness ==
    /\ SearchEnded
    /\ tolerance > 0
    /\ heap = <<>>
    /\ best_cell.d > 0
    /\ \E i \in 1..Len(pops) : ~pops[i].pruned
    /\ \E pt \in GridPoints : Distance(pt, polygon) > best_cell.d

\* C2: within one run best.d never decreases, and best is only ever replaced
\* by a cell with strictly larger d.
C2_BestMonotonic ==
    [][(best_cell # NoCell /\ best_cell' # NoCell)
          => /\ best_cell'.d >= best_cell.d
             /\ (best_cell' # best_cell => best_cell'.d > best_cell.d)]_vars

\* best has been replaced twice by popped cells, each time by a larger d.
C2_Witness ==
    \E i, j \in 1..Len(pops) :
        /\ i < j
        /\ pops[i].best = pops[i].cell
        /\ pops[j].best = pops[j].cell
        /\ pops[j].cell.d > pops[i].cell.d
        /\ pops[i].cell.d > SeedBestCell(CentroidCell(polygon), BBoxCell(polygon)).d

\* The four children of a cell, as lines 136-138 build them.
ChildrenOf(c) ==
    {NewCell(c.x + dx, c.y + dy, c.h \div 2, polygon) :
        dx \in {-(c.h \div 2), c.h \div 2}, dy \in {-(c.h \div 2), c.h \div 2}}

\* C3: a popped cell is pruned iff cell.upperBound - best.d <= tolerance,
\* with best as updated by that same pop; a pruned cell gets no children and
\* a cell that is not pruned gets its four children.
C3_PruneIffWithinTolerance ==
    \A i \in 1..Len(pops) :
        LET e == pops[i]
        IN /\ e.pruned <=> (e.cell.max - e.best.d <= tolerance)
           /\ e.best.d >= e.cell.d
           /\ (i = Len(pops) /\ pc \in {"loop", "children", "lattice_limit"})
                 => best_cell = e.best
           /\ (e.pruned /\ e.cell.h > 0 /\ e.cell.h % 2 = 0)
                 => ChildrenOf(e.cell) \cap cells = {}
           /\ (~e.pruned /\ (i < Len(pops) \/ pc \in {"loop", "output", "returned"}))
                 => ChildrenOf(e.cell) \subseteq cells

\* A cell exactly at the tolerance boundary was pruned, after another cell
\* above the boundary was subdivided.
C3_Witness ==
    \E i, j \in 1..Len(pops) :
        /\ ~pops[i].pruned
        /\ pops[i].cell.max - pops[i].best.d > tolerance
        /\ ChildrenOf(pops[i].cell) \subseteq cells
        /\ pops[j].pruned
        /\ pops[j].cell.max - pops[j].best.d = tolerance

\* C4: for a polygon that is not degenerate and a tolerance > 0 the search
\* loop terminates with an empty frontier, every popped cell with
\* h * sqrt(2) <= tolerance being pruned.
C4_LoopEndsWithEmptyFrontier ==
    (branch = "search" /\ tolerance > 0 /\ pops # <<>>)
        => /\ \A i \in 1..Len(pops) :
                 HalfDiagonal(pops[i].cell.h) <= tolerance => pops[i].pruned
           /\ pc \notin {"loop", "children"} => heap = <<>>

\* C5: two runs on the same inputs pop the same cells in the same order and
\* return the same point and distance, whatever the clock read at each put.
C5_Deterministic ==
    (pc = "returned" /\ prev.ran)
        => /\ prev.order = PopOrder
           /\ prev.point = pole_pt[1]
           /\ prev.d = best_cell.d

\* C6: every pop yields a cell whose upperBound is greater than or equal to
\* the upperBound of every cell held in the frontier at that moment.
C6_PopYieldsGreatestBound ==
    [][Len(pops') = Len(pops) + 1
          => \A i \in 1..Len(heap) :
                heap[i][3].max <= pops'[Len(pops')].cell.max]_vars

\* Right after a pop that pruned, the frontier still holds a cell with the
\* same upperBound as the popped cell and a cell with a smaller one.
C6_Witness ==
    /\ pc = "loop"
    /\ pops # <<>>
    /\ pops[Len(pops)].pruned
    /\ \E i, j \in 1..Len(heap) :
          /\ heap[i][3].max = pops[Len(pops)].cell.max
          /\ heap[j][3].max < pops[Len(pops)].cell.max

\* C7: the secondary keys of the entries pushed in one run are strictly
\* increasing in insertion order, so no comparison of two entries ever
\* reaches the Cell.
C7_KeysStrictlyIncreasing ==
    /\ \A i, j \in 1..Len(pushed) : i < j => pushed[i] < pushed[j]
    /\ pc # "TypeError"

\* C8: the distance of the result is at least the distance at the centroid:
\* best.d >= d(centroid) from seeding on, the result of the search is the
\* position of best, and the degenerate branch returns the centroid itself.
C8_CentroidDominance ==
    /\ best_cell # NoCell
          => best_cell.d >= Distance(Centroid(polygon), polygon)
    /\ (branch = "search" /\ pole_pt # <<>>)
          => /\ pole_pt[1] = <<best_cell.x, best_cell.y>>
             /\ Distance(pole_pt[1], polygon)
                   >= Distance(Centroid(polygon), polygon)
    /\ (branch = "degenerate" /\ pole_pt # <<>>)
          => pole_pt[1] = Centroid(polygon)

\* A search returned a point whose distance is above the centroid's.
C8_Witness ==
    /\ pc = "returned"
    /\ branch = "search"
    /\ best_cell.d > Distance(Centroid(polygon), polygon)
    /\ pole_pt[1] # Centroid(polygon)

\* C9: with min(width, height) = 0 or area < max(width, height) * tolerance
\* the result is the centroid and no cell is constructed, pushed or popped;
\* otherwise the search branch is taken.
C9_DegenerateNoSearch ==
    pc # "start"
        => IF \/ Min({Width(polygon), Height(polygon)}) = 0
              \/ Area(polygon) < MaxDim(polygon) * tolerance
           THEN /\ branch = "degenerate"
                /\ pole_pt = <<Centroid(polygon)>>
                /\ cells = {}
                /\ heap = <<>>
                /\ pushed = <<>>
                /\ pops = <<>>
           ELSE branch = "search"

\* A call returned the centroid of a polygon whose bounding box is not
\* collapsed but whose area is below max(width, height) * tolerance.
C9_Witness ==
    /\ pc = "returned"
    /\ branch = "degenerate"
    /\ cell_size > 0
    /\ Area(polygon) > 0

\* C10: a call with tolerance <= 0 fails before the main loop: it constructs
\* no cell, never touches the frontier and produces no result point.
C10_NonPositiveToleranceRejected ==
    (tolParam # <<>> /\ tolParam[1] <= 0)
        => /\ branch # "search"
           /\ cells = {}
           /\ pushed = <<>>
           /\ pole_pt = <<>>

\* C11: with a tolerance > 0 a call never reaches a failure state, and a
\* call that has returned has produced exactly one result point.
C11_NeverFails ==
    (pc # "start" /\ tolerance > 0)
        => /\ pc # "TypeError"
           /\ pc = "returned" => Len(pole_pt) = 1

\* C12: every Cell constructed has upperBound = d + h * sqrt(2) >= d, with
\* equality exactly when h = 0.  On the lattice upperBound - d is the least
\* integer whose square is at least 2 * h * h.
C12_UpperBoundAboveDistance ==
    \A c \in cells :
        /\ c.max >= c.d
        /\ (c.max = c.d) <=> (c.h = 0)
        /\ (c.max - c.d) * (c.max - c.d) >= 2 * c.h * c.h
        /\ c.h > 0 => (c.max - c.d - 1) * (c.max - c.d - 1) < 2 * c.h * c.h

\* Seed cells (h = 0), grid cells and children of two sizes have all been
\* constructed, some of them with d > 0.
C12_Witness ==
    /\ \E c \in cells : c.h = 0 /\ c.max = c.d
    /\ \E c, e \in cells : c.h > e.h /\ e.h > 0 /\ e.d > 0 /\ e.max > e.d

\* Whether point pt lies in or on polygon p (outside every hole).
Inside(pt, p) ==
    \E r \in Geometry(p).rects :
        /\ r[1] <= pt[1] /\ pt[1] <= r[3]
        /\ r[2] <= pt[2] /\ pt[2] <= r[4]

\* C13: for the square with a centered square hole the returned point lies
\* in the polygon, outside the hole, and the d of every cell is positive
\* only for a center in the polygon and negative for a center outside it or
\* in the hole.
C13_HoleAvoidance ==
    polygon = "Ring"
        => /\ SearchEnded => Inside(pole_pt[1], polygon)
           /\ \A c \in cells :
                 /\ c.d > 0 => Inside(<<c.x, c.y>>, polygon)
                 /\ ~Inside(<<c.x, c.y>>, polygon) => c.d < 0

CeilDiv(a, b) == (a + b - 1) \div b

\* Number of tiles of the initial grid.
GridCount == CeilDiv(Width(polygon), cell_size) * CeilDiv(Height(polygon), cell_size)

\* Center and half-size of a cell.
Place(c) == <<c.x, c.y, c.h>>

\* The lattice points of the square of center (cx, cy) and half-size hh.
SquarePoints(cx, cy, hh) == ((cx - hh)..(cx + hh)) \X ((cy - hh)..(cy + hh))

Subdivided == {i \in 1..Len(pops) : ~pops[i].pruned}

\* C14: a popped cell (x, y, h) that is not pruned gets exactly four
\* children, centered at (x -+ h/2, y -+ h/2) with half-size h/2, all four
\* are pushed and the parent is not, so that each subdivision adds 4 puts and
\* 3 entries to the frontier; the four squares cover exactly the parent's.
C14_FourChildren ==
    (branch = "search" /\ pc \in {"loop", "output", "returned"} /\ best_cell # NoCell)
        => /\ Len(pushed) = GridCount + 4 * Cardinality(Subdivided)
           /\ Len(heap) = GridCount + 3 * Cardinality(Subdivided)
                             - Cardinality((1..Len(pops)) \ Subdivided)
           /\ \A i \in Subdivided :
                 LET c == pops[i].cell
                     hc == c.h \div 2
                     kids == {<<c.x - hc, c.y - hc, hc>>, <<c.x + hc, c.y - hc, hc>>,
                              <<c.x - hc, c.y + hc, hc>>, <<c.x + hc, c.y + hc, hc>>}
                 IN /\ 2 * hc = c.h
                    /\ {Place(e) : e \in {e \in cells :
                            /\ e.h = hc
                            /\ e.x > c.x - c.h /\ e.x < c.x + c.h
                            /\ e.y > c.y - c.h /\ e.y < c.y + c.h}} = kids
                    /\ \A j \in 1..Len(heap) : heap[j][3] # c
                    /\ \A kid \in kids :
                          \/ \E j \in 1..Len(heap) : Place(heap[j][3]) = kid
                          \/ \E j \in 1..Len(pops) : Place(pops[j].cell) = kid
                    /\ UNION {SquarePoints(kid[1], kid[2], kid[3]) : kid \in kids}
                          = SquarePoints(c.x, c.y, c.h)

\* A subdivision has just completed: the last cell popped was not pruned and
\* the loop is back at its head with the children in the frontier.
C14_Witness ==
    /\ pc = "loop"
    /\ pops # <<>>
    /\ ~pops[Len(pops)].pruned
    /\ Len(pops) >= 2
    /\ Len(heap) >= 5

\* The lower-left corners of the tiles: from (minX, minY) in steps of
\* cellSize while x < maxX and y < maxY.
TileCorners ==
    {t \in (XMin(polygon)..(XMax(polygon) - 1)) \X (YMin(polygon)..(YMax(polygon) - 1)) :
        /\ (t[1] - XMin(polygon)) % cell_size = 0
        /\ (t[2] - YMin(polygon)) % cell_size = 0}

\* C15: seeding pushes one cell per tile of the grid of side
\* cellSize = min(width, height) starting at (minX, minY), centered in the
\* tile with half-size cellSize / 2; there are
\* ceil(width / cellSize) * ceil(height / cellSize) of them and their squares
\* contain the whole bounding box.
C15_InitialGrid ==
    (branch = "search" /\ pc = "seedbest")
        => /\ cell_size = Min({Width(polygon), Height(polygon)})
           /\ {Place(c) : c \in cells}
                 = {<<t[1] + cell_size \div 2, t[2] + cell_size \div 2, cell_size \div 2>> :
                       t \in TileCorners}
           /\ {heap[i][3] : i \in 1..Len(heap)} = cells
           /\ Len(heap) = GridCount
           /\ Len(pushed) = GridCount
           /\ Cardinality(cells) = GridCount
           /\ \A pt \in (XMin(polygon)..XMax(polygon)) \X (YMin(polygon)..YMax(polygon)) :
                 \E c \in cells : pt \in SquarePoints(c.x, c.y, c.h)

\* The grid of a bounding box whose longer side is not a multiple of the
\* cell size has been seeded: the last tile reaches beyond the box.
C15_Witness ==
    /\ pc = "seedbest"
    /\ Len(heap) >= 2
    /\ Width(polygon) % cell_size # 0
    /\ \E c \in cells : c.x + c.h > XMax(polygon)

\* The two seed cells as lines 117 and 122 describe them.
CentroidSeed ==
    LET d == Distance(Centroid(polygon), polygon)
    IN [x |-> Centroid(polygon)[1], y |-> Centroid(polygon)[2], h |-> 0,
        d |-> d, max |-> d]
BBoxSeed ==
    LET cx == XMin(polygon) + Width(polygon) \div 2
        cy == YMin(polygon) + Height(polygon) \div 2
        d == Distance(<<cx, cy>>, polygon)
    IN [x |-> cx, y |-> cy, h |-> 0, d |-> d, max |-> d]

\* C16: before the first pop best is the centroid cell, unless the
\* bbox-center cell has strictly greater d and is best; both have h = 0,
\* neither is in the frontier, and the frontier is the seeded grid.
C16_SeedBest ==
    (branch = "search" /\ pc = "loop" /\ pops = <<>>)
        => /\ best_cell = IF BBoxSeed.d > CentroidSeed.d THEN BBoxSeed ELSE CentroidSeed
           /\ best_cell.h = 0
           /\ {CentroidSeed, BBoxSeed} \subseteq cells
           /\ \A i \in 1..Len(heap) : heap[i][3].h > 0
           /\ Len(heap) = GridCount
           /\ Len(pushed) = GridCount

\* best was seeded from the bbox center, whose d is above the centroid's.
C16_Witness ==
    /\ branch = "search"
    /\ pc = "loop"
    /\ pops = <<>>
    /\ BBoxSeed.d > CentroidSeed.d
    /\ best_cell = BBoxSeed
    /\ best_cell # CentroidSeed

\* C17: best is updated from every popped cell before the prune test, also
\* from a cell that is then pruned: from seeding on, best.d is at least the d
\* of every cell popped so far and of both seed cells.
C17_BestAbovePopped ==
    /\ \A i \in 1..Len(pops) : pops[i].best.d >= pops[i].cell.d
    /\ best_cell # NoCell
          => /\ \A i \in 1..Len(pops) : best_cell.d >= pops[i].cell.d
             /\ best_cell.d >= CentroidSeed.d
             /\ best_cell.d >= BBoxSeed.d

\* A search has returned whose best is a cell that was pruned at the pop
\* that made it best.
C17_Witness ==
    /\ pc = "returned"
    /\ \E i \in 1..Len(pops) :
          /\ pops[i].pruned
          /\ pops[i].best = pops[i].cell
          /\ best_cell = pops[i].cell
          /\ best_cell.d > CentroidSeed.d
          /\ best_cell.d > BBoxSeed.d

PrunedCells == {pops[i].cell : i \in {i \in 1..Len(pops) : pops[i].pruned}}
FrontierCells == {heap[i][3] : i \in 1..Len(heap)}

RECURSIVE SumSquareAreas(_)
SumSquareAreas(S) ==
    IF S = {} THEN 0
    ELSE LET c == CHOOSE c \in S : TRUE
         IN (2 * c.h) * (2 * c.h) + SumSquareAreas(S \ {c})

\* C18: at every loop head every point of the initial grid's area lies in a
\* cell of the frontier or in a pruned cell (the cells tile the grid's
\* area), and no point of a pruned cell beats best by more than tolerance.
C18_NothingDiscarded ==
    (branch = "search" /\ pc \in {"loop", "output", "returned"})
        => /\ \A pt \in GridPoints :
                 \E c \in FrontierCells \cup PrunedCells :
                    pt \in SquarePoints(c.x, c.y, c.h)
           /\ SumSquareAreas(FrontierCells \cup PrunedCells)
                 = GridCount * cell_size * cell_size
           /\ \A c \in PrunedCells :
                 /\ c.max - best_cell.d <= tolerance
                 /\ \A pt \in SquarePoints(c.x, c.y, c.h) :
                       Distance(pt, polygon) <= best_cell.d + tolerance

\* At a loop head the grid is covered by pruned cells together with frontier
\* cells of two different sizes.
C18_Witness ==
    /\ pc = "loop"
    /\ PrunedCells # {}
    /\ \E c, e \in FrontierCells : c.h > e.h
    /\ \E c \in PrunedCells : c.d < best_cell.d

\* C19: once a popped cell has been pruned every cell popped afterwards is
\* pruned too: no subdivision and no put follows, and the frontier shrinks
\* by one per iteration.
C19_OnlyPrunesAfterPrune ==
    /\ \A i, j \in 1..Len(pops) : (i < j /\ pops[i].pruned) => pops[j].pruned
    /\ PrunedCells # {} => pc \notin {"children", "lattice_limit"}
    /\ (PrunedCells # {} /\ pc = "loop")
          => Len(heap) = GridCount + 3 * Cardinality(Subdivided)
                            - (Len(pops) - Cardinality(Subdivided))

\* A search has returned after at least two subdivisions followed by at
\* least three prunes.
C19_Witness ==
    /\ pc = "returned"
    /\ Cardinality(Subdivided) >= 2
    /\ Len(pops) - Cardinality(Subdivided) >= 3

\* C20: when execute has returned, the output feature class the derived
\* parameter names still exists in the in_memory workspace and holds the
\* pole point, and the temporary copy of the input is gone.
C20_OutputSurvivesCleanup ==
    pc = "returned"
        => /\ out_param = "in_memory/output_point"
           /\ \E ds \in in_memory :
                 ds.name = "output_point" /\ ds.rows = <<pole_pt[1]>>
           /\ \A ds \in in_memory : ds.name # "temp_polygon"

====
